---- MODULE Spec2Model ----
(***************************************************************************)
(* Material batch ledger of the project-management backend: the Material   *)
(* collection (models/Material.js) and the routes of routes/material.js    *)
(* that add, take (FIFO consume), re-status and delete batches.            *)
(*                                                                         *)
(* Spec      requests are applied one at a time, each handler as one step. *)
(* SpecConc  two take requests interleave at their awaits (find, save).    *)
(***************************************************************************)
EXTENDS Integers, Sequences, FiniteSets, TLC

\* ----------------------------------------------------------------- bounds
MaxBatches == 2     \* documents in the collection when the server starts
MaxQty     == 2     \* largest delivered quantity of a batch
MaxDay     == 2     \* dates are day numbers 1..MaxDay
MaxTake    == 3     \* largest numeric quantity of a take request

\* ------------------------------------------------------------ value sets
MatCodes   == {"CEM1", "SND2"}
Projects   == {"p1"}
Users      == {"u1"}
\* the accounts of the User collection
Accounts   == {"a1"}
Days       == 1..MaxDay
\* the `date` of a take request, or the clock when the body has none
TakeDays   == {MaxDay}
Procs      == {1, 2}
Undefined  == "undefined"

\* enum of materialSchema.status
StatusEnum == {"Available", "Out of Stock", "On Hold"}
\* values router.put("/status/:matCode") accepts
RouteStatuses == {"available", "on hold", "out of stock"}

VARIABLES
  store,    \* the Material collection: _id -> document
  nextId,   \* next _id the collection hands out
  res,      \* the request last answered and its HTTP response
  pc,       \* SpecConc: where each take request stands: idle, loop, done
  req,      \* SpecConc: body of each take request
  snap,     \* SpecConc: `materials`, the documents each request has read
  loop,     \* SpecConc: `qtyToTake`, the next document of the loop, the
            \*           documents saved and the HTTP status of each request
  attendance, \* SpecAttendance: the Attendance collection, in insertion order
  users,    \* SpecAuth: the User collection: account -> document
  now       \* SpecAuth: the server clock, in minutes

vars == <<store, nextId, res, pc, req, snap, loop, attendance, users, now>>

\* ------------------------------------------------------- numbers and NaN
\* A JavaScript number that may be NaN.
Num(n) == [nan |-> FALSE, v |-> n]
NaN    == [nan |-> TRUE, v |-> 0]

\* The `quantity` field of a request body.
RawQuantities ==
  [kind : {"num"}, v : (-1)..MaxTake] \cup [kind : {"text"}, v : {0}]

\* Number(quantity)
ToNumber(raw) == IF raw.kind = "num" THEN Num(raw.v) ELSE NaN

\* a < b, a <= b, a >= b, a - b on JavaScript numbers: every comparison with
\* NaN is false, every difference with NaN is NaN.
NumLt(a, b)  == ~a.nan /\ ~b.nan /\ a.v < b.v
NumLe(a, b)  == ~a.nan /\ ~b.nan /\ a.v <= b.v
NumGe(a, b)  == ~a.nan /\ ~b.nan /\ a.v >= b.v
NumSub(a, b) == IF a.nan \/ b.nan THEN NaN ELSE Num(a.v - b.v)

\* ------------------------------------------------------------- documents
RECURSIVE SumQty(_)
SumQty(h) == IF h = <<>> THEN 0 ELSE Head(h).quantity + SumQty(Tail(h))

\* new Material({...}) of router.post("/add"): `name` is not among the
\* fields the route passes, `status` and `usageHistory` take their defaults.
NewMaterial(matCode, quantity, addedBy, date, projectAssigned) ==
  [ name              |-> Undefined,
    matCode           |-> matCode,
    quantity          |-> quantity,
    availableQuantity |-> quantity,
    date              |-> date,
    addedBy           |-> addedBy,
    status            |-> "Available",
    usageHistory      |-> <<>>,
    projectAssigned   |-> projectAssigned ]

\* Mutant of ValidateDoc: `name` is not required.
ValidateDocNameOptional(doc) ==
  /\ doc.matCode # Undefined
  /\ doc.addedBy # Undefined
  /\ doc.projectAssigned # Undefined
  /\ doc.status \in StatusEnum

\* Schema validation run by document.save(), on a new document and on one
\* loaded by find() alike: required paths are present and status is a member
\* of the enum. (updateMany, deleteMany and findByIdAndDelete do not run it.)
ValidateDoc(doc) ==
  /\ doc.name # Undefined
  /\ doc.matCode # Undefined
  /\ doc.addedBy # Undefined
  /\ doc.projectAssigned # Undefined
  /\ doc.status \in StatusEnum

\* A delivery as the collection holds it when the server starts: a document
\* that passes the schema, with a positive quantity and with the ledger
\* fields as /add sets them (availableQuantity: quantity, no usage yet).
StoredDelivery(matCode, quantity, date, projectAssigned) ==
  [ NewMaterial(matCode, quantity, "admin", date, projectAssigned)
      EXCEPT !.name = "cement" ]

Deliveries ==
  { StoredDelivery(c, q, d, p) : c \in MatCodes, q \in 1..MaxQty,
                                 d \in Days, p \in Projects }

\* The request last answered and its answer: the route, the HTTP status and,
\* for a take request, its material code and quantity and the number of
\* documents it had saved when it was answered; for a read request, the
\* JSON body answered, and for a report its query and `materials`, the _ids
\* of the documents found, in the order found.
NoQuantity == [kind |-> "text", v |-> 0]
Absent  == [kind |-> "absent", v |-> 0]
NoQuery == [projectId |-> Undefined, year |-> Absent, month |-> Absent]
Response(op, status, saved) ==
  [ op |-> op, status |-> status, saved |-> saved,
    matCode |-> Undefined, quantity |-> NoQuantity,
    query |-> NoQuery, materials |-> <<>>, body |-> <<>> ]
TakeResponse(status, saved, matCode, quantity) ==
  [ Response("take", status, saved)
      EXCEPT !.matCode = matCode, !.quantity = quantity ]
NoRes == Response("none", 0, 0)
NoReq == [ matCode |-> Undefined, quantity |-> NoQuantity,
           takenBy |-> Undefined, date |-> 0 ]

NoLoop == [qtyToTake |-> Num(0), next |-> 1, saved |-> 0, status |-> 0]

\* No route orders or compares documents by _id, so the collection is taken
\* up to a renaming of its _ids: the documents present at the start are
\* numbered in the order of (matCode, date, quantity).
Key(d) == <<IF d.matCode = "CEM1" THEN 0 ELSE 1, d.date, d.quantity>>
KeyLe(a, b) ==
  \/ a[1] < b[1]
  \/ a[1] = b[1] /\ a[2] < b[2]
  \/ a[1] = b[1] /\ a[2] = b[2] /\ a[3] <= b[3]

InitStore(n) ==
  /\ store \in [1..n -> Deliveries]
  /\ \A i, j \in 1..n : i < j => KeyLe(Key(store[i]), Key(store[j]))
  /\ nextId = n + 1

\* the User document of an account that never logged in: the otp subdocument
\* holds its default only
NoOtp == [code |-> Undefined, expiresAt |-> Absent, verified |-> FALSE]
NewUser == [otp |-> NoOtp, isActive |-> TRUE]
\* the collections the material routes do not touch
InitOthers ==
  /\ attendance = <<>>
  /\ users = [u \in Accounts |-> NewUser]
  /\ now = 0

Init ==
  /\ \E n \in 0..MaxBatches : InitStore(n)
  /\ res = NoRes
  /\ pc = [p \in Procs |-> "idle"]
  /\ req = [p \in Procs |-> NoReq]
  /\ snap = [p \in Procs |-> <<>>]
  /\ loop = [p \in Procs |-> NoLoop]
  /\ InitOthers

\* what a material route handled as one step leaves alone: the positions of
\* the interleaved requests and the other collections
otherVars == <<attendance, users, now>>
procVars == <<pc, req, snap, loop, otherVars>>

\* --------------------------------------------------- collection operators
\* st without the documents in ids
Remove(st, ids) == [i \in (DOMAIN st) \ ids |-> st[i]]

\* st with doc inserted under id
Insert(st, id, doc) ==
  [i \in (DOMAIN st) \cup {id} |-> IF i = id THEN doc ELSE st[i]]

\* Mutant of FindAvailable: the filter on availableQuantity is missing.
FindAvailableAnyQuantity(st, matCode) ==
  { i \in DOMAIN st : st[i].matCode = matCode }

\* Material.find({ matCode, availableQuantity: { $gt: 0 } })
FindAvailable(st, matCode) ==
  { i \in DOMAIN st : st[i].matCode = matCode /\ st[i].availableQuantity > 0 }

\* Mutant of SortedByDate: newest first, .sort({ date: -1 }).
SortedByDateDesc(st, ids) ==
  { s \in [1..Cardinality(ids) -> ids] :
      /\ \A i, j \in DOMAIN s : i # j => s[i] # s[j]
      /\ \A i, j \in DOMAIN s : i < j => st[s[i]].date >= st[s[j]].date }

\* .sort({ date: 1 }): the found documents in ascending date order; the
\* order among equal dates is whatever the database returns.
SortedByDate(st, ids) ==
  { s \in [1..Cardinality(ids) -> ids] :
      /\ \A i, j \in DOMAIN s : i # j => s[i] # s[j]
      /\ \A i, j \in DOMAIN s : i < j => st[s[i]].date <= st[s[j]].date }

\* the documents as the request holds them in memory
Loaded(st, order) ==
  [k \in DOMAIN order |-> [id |-> order[k], doc |-> st[order[k]]]]

\* Mutant of TotalAvailable: sums the delivered quantity.
RECURSIVE TotalAvailableDelivered(_)
TotalAvailableDelivered(materials) ==
  IF materials = <<>> THEN 0
  ELSE Head(materials).doc.quantity + TotalAvailableDelivered(Tail(materials))

\* materials.reduce((acc, m) => acc + m.availableQuantity, 0)
RECURSIVE TotalAvailable(_)
TotalAvailable(materials) ==
  IF materials = <<>> THEN 0
  ELSE Head(materials).doc.availableQuantity + TotalAvailable(Tail(materials))

\* ------------------------------------------------------- the FIFO take loop
\* Mutant of Deduct: the first branch adds qtyToTake instead of subtracting.
DeductAdds(doc, qtyToTake) ==
  IF NumGe(Num(doc.availableQuantity), qtyToTake)
  THEN [ availableQuantity |-> doc.availableQuantity + qtyToTake.v,
         used              |-> qtyToTake.v,
         qtyToTake         |-> Num(0) ]
  ELSE [ availableQuantity |-> 0,
         used              |-> doc.availableQuantity,
         qtyToTake         |-> NumSub(qtyToTake, Num(doc.availableQuantity)) ]

\* Mutant of Deduct: the second branch records qtyToTake, not what the
\* document had.
DeductWrongEvent(doc, qtyToTake) ==
  IF NumGe(Num(doc.availableQuantity), qtyToTake)
  THEN [ availableQuantity |-> doc.availableQuantity - qtyToTake.v,
         used              |-> qtyToTake.v,
         qtyToTake         |-> Num(0) ]
  ELSE [ availableQuantity |-> 0,
         used              |-> qtyToTake.v,
         qtyToTake         |-> NumSub(qtyToTake, Num(doc.availableQuantity)) ]

\* Mutant of Deduct: the second branch subtracts qtyToTake from the document
\* instead of setting it to 0.
DeductNoClamp(doc, qtyToTake) ==
  IF NumGe(Num(doc.availableQuantity), qtyToTake)
  THEN [ availableQuantity |-> doc.availableQuantity - qtyToTake.v,
         used              |-> qtyToTake.v,
         qtyToTake         |-> Num(0) ]
  ELSE [ availableQuantity |-> doc.availableQuantity - qtyToTake.v,
         used              |-> doc.availableQuantity,
         qtyToTake         |-> NumSub(qtyToTake, Num(doc.availableQuantity)) ]

\* One iteration of the loop body on document `doc` with qtyToTake still to
\* take: the new availableQuantity, the quantity of the usage event pushed,
\* and qtyToTake after the iteration.
Deduct(doc, qtyToTake) ==
  IF NumGe(Num(doc.availableQuantity), qtyToTake)
  THEN [ availableQuantity |-> doc.availableQuantity - qtyToTake.v,
         used              |-> qtyToTake.v,
         qtyToTake         |-> Num(0) ]
  ELSE [ availableQuantity |-> 0,
         used              |-> doc.availableQuantity,
         qtyToTake         |-> NumSub(qtyToTake, Num(doc.availableQuantity)) ]

\* material.save() succeeds when the document still exists and the loaded
\* document passes schema validation.
SaveOk(st, m) == m.id \in DOMAIN st /\ ValidateDoc(m.doc)

\* Mutant of Save: the usage event is not stored.
SaveNoPush(st, id, availableQuantity, event) ==
  [st EXCEPT ![id].availableQuantity = availableQuantity]

\* Mutant of Save: usageHistory is set to the new event alone.
SaveOverwriting(st, id, availableQuantity, event) ==
  [st EXCEPT ![id].availableQuantity = availableQuantity,
             ![id].usageHistory = <<event>>]

\* material.save() of a loaded document whose availableQuantity was assigned
\* and whose usageHistory was pushed to. save() sends the changes only: it
\* sets availableQuantity to the value the request computed ($set) and
\* appends the event to the usageHistory the database holds ($push), without
\* a condition on what the document has become since it was read.
Save(st, id, availableQuantity, event) ==
  [st EXCEPT ![id].availableQuantity = availableQuantity,
             ![id].usageHistory = Append(@, event)]

UsageEvent(takenBy, quantity, date) ==
  [takenBy |-> takenBy, quantity |-> quantity, date |-> date]

\* Mutant of TakeLoop: a failed save undoes the saves made before it.
RECURSIVE TakeLoopRollback(_, _, _, _, _, _, _, _)
TakeLoopRollback(st0, st, materials, qtyToTake, takenBy, date, fault, saved) ==
  IF materials = <<>> \/ NumLe(qtyToTake, Num(0))
  THEN [store |-> st, status |-> 200, saved |-> saved]
  ELSE LET m == Head(materials)
           d == Deduct(m.doc, qtyToTake)
       IN IF fault = 1 \/ ~SaveOk(st, m)
          THEN [store |-> st0, status |-> 500, saved |-> saved]
          ELSE TakeLoopRollback(st0,
                                Save(st, m.id, d.availableQuantity,
                                     UsageEvent(takenBy, d.used, date)),
                                Tail(materials), d.qtyToTake, takenBy, date,
                                fault - 1, saved + 1)

TakeLoopAllOrNothing(st, materials, qtyToTake, takenBy, date, fault, saved) ==
  TakeLoopRollback(st, st, materials, qtyToTake, takenBy, date, fault, saved)

\* Mutant of TakeLoop: `if (qtyToTake <= 0) break` is missing.
RECURSIVE TakeLoopNoBreak(_, _, _, _, _, _, _)
TakeLoopNoBreak(st, materials, qtyToTake, takenBy, date, fault, saved) ==
  IF materials = <<>>
  THEN [store |-> st, status |-> 200, saved |-> saved]
  ELSE LET m == Head(materials)
           d == Deduct(m.doc, qtyToTake)
       IN IF fault = 1 \/ ~SaveOk(st, m)
          THEN [store |-> st, status |-> 500, saved |-> saved]
          ELSE TakeLoopNoBreak(Save(st, m.id, d.availableQuantity,
                                    UsageEvent(takenBy, d.used, date)),
                               Tail(materials), d.qtyToTake, takenBy, date,
                               fault - 1, saved + 1)

\* The loop over `materials` run to its end from store st. `fault` is the
\* number of the iteration whose save the database fails (0: none does).
\* Yields the store, the HTTP status and the number of documents saved.
RECURSIVE TakeLoop(_, _, _, _, _, _, _)
TakeLoop(st, materials, qtyToTake, takenBy, date, fault, saved) ==
  IF materials = <<>> \/ NumLe(qtyToTake, Num(0))
  THEN [store |-> st, status |-> 200, saved |-> saved]
  ELSE LET m == Head(materials)
           d == Deduct(m.doc, qtyToTake)
       IN IF fault = 1 \/ ~SaveOk(st, m)
          THEN [store |-> st, status |-> 500, saved |-> saved]
          ELSE TakeLoop(Save(st, m.id, d.availableQuantity,
                             UsageEvent(takenBy, d.used, date)),
                        Tail(materials), d.qtyToTake, takenBy, date,
                        fault - 1, saved + 1)

\* ---------------------------------------------------------------- routes
\* Values of `projectAssigned` in a request body besides the ids of the
\* projects: a well-formed id of no project, and a string that is no id.
UnknownIds   == {"p0"}
MalformedIds == {"bad"}

\* Project.findById(projectAssigned): the project found, null for a
\* well-formed id of no project, a CastError for a string that is no id.
FindProject(projectAssigned) ==
  IF projectAssigned \in MalformedIds THEN "CastError"
  ELSE IF projectAssigned \in Projects THEN "found"
  ELSE "null"

\* router.post("/add") with the given body. A rejected findById or save is
\* caught and answered 500.
Add(matCode, quantity, date, projectAssigned) ==
  LET project  == FindProject(projectAssigned)
      material == NewMaterial(matCode, quantity, "admin", date,
                              projectAssigned)
  IN /\ IF project = "CastError"
        THEN /\ res' = Response("add", 500, 0)
             /\ UNCHANGED <<store, nextId>>
        ELSE IF project = "null"
        THEN /\ res' = Response("add", 400, 0)
             /\ UNCHANGED <<store, nextId>>
        ELSE IF ~ValidateDoc(material)
        THEN /\ res' = Response("add", 500, 0)
             /\ UNCHANGED <<store, nextId>>
        ELSE /\ store' = Insert(store, nextId, material)
             /\ nextId' = nextId + 1
             /\ res' = Response("add", 201, 0)
     /\ UNCHANGED procVars

AddMaterial ==
  \E matCode \in MatCodes, quantity \in (-1)..MaxQty, date \in Days,
     projectAssigned \in Projects \cup UnknownIds \cup MalformedIds :
    Add(matCode, quantity, date, projectAssigned)

\* router.post("/take"), the whole handler, with the given body; the
\* database fails the save of iteration `fault` (0: of none).
Take(matCode, quantity, takenBy, date, fault) ==
  \E order \in SortedByDate(store, FindAvailable(store, matCode)) :
    LET materials == Loaded(store, order)
        qtyToTake == ToNumber(quantity)
        totalAvailable == TotalAvailable(materials)
        end == TakeLoop(store, materials, qtyToTake, takenBy, date, fault, 0)
    IN /\ IF Len(materials) = 0
          THEN /\ res' = TakeResponse(404, 0, matCode, quantity)
               /\ UNCHANGED store
          ELSE IF NumLt(Num(totalAvailable), qtyToTake)
          THEN /\ res' = TakeResponse(400, 0, matCode, quantity)
               /\ UNCHANGED store
          ELSE /\ store' = end.store
               /\ res' = TakeResponse(end.status, end.saved, matCode,
                                      quantity)
       /\ UNCHANGED <<nextId, procVars>>

Faults == 0..MaxBatches

TakeMaterial ==
  \E matCode \in MatCodes, quantity \in RawQuantities, takenBy \in Users,
     date \in TakeDays, fault \in Faults :
    Take(matCode, quantity, takenBy, date, fault)

\* Mutant of SetStatus: out of stock sets the delivered quantity to 0, not
\* availableQuantity.
SetStatusZeroesDelivered(matCode, status) ==
  LET matched == {i \in DOMAIN store : store[i].matCode = matCode}
  IN /\ IF status \notin RouteStatuses
        THEN /\ res' = Response("status", 400, 0)
             /\ UNCHANGED store
        ELSE /\ store' =
                  [i \in DOMAIN store |->
                     IF i \notin matched THEN store[i]
                     ELSE IF status = "out of stock"
                     THEN [store[i] EXCEPT !.status = status,
                                           !.quantity = 0]
                     ELSE [store[i] EXCEPT !.status = status]]
             /\ res' = Response("status",
                                IF matched = {} THEN 404 ELSE 200, 0)
     /\ UNCHANGED <<nextId, procVars>>

\* Mutant of SetStatus: out of stock sets the status alone.
SetStatusKeepsQuantity(matCode, status) ==
  LET matched == {i \in DOMAIN store : store[i].matCode = matCode}
  IN /\ IF status \notin RouteStatuses
        THEN /\ res' = Response("status", 400, 0)
             /\ UNCHANGED store
        ELSE /\ store' =
                  [i \in DOMAIN store |->
                     IF i \notin matched THEN store[i]
                     ELSE [store[i] EXCEPT !.status = status]]
             /\ res' = Response("status",
                                IF matched = {} THEN 404 ELSE 200, 0)
     /\ UNCHANGED <<nextId, procVars>>

\* Mutant of SetStatus: the filter of updateMany is empty, every document
\* is updated.
SetStatusAllCodes(matCode, status) ==
  LET matched == DOMAIN store
  IN /\ IF status \notin RouteStatuses
        THEN /\ res' = Response("status", 400, 0)
             /\ UNCHANGED store
        ELSE /\ store' =
                  [i \in DOMAIN store |->
                     IF status = "out of stock"
                     THEN [store[i] EXCEPT !.status = status,
                                           !.availableQuantity = 0]
                     ELSE [store[i] EXCEPT !.status = status]]
             /\ res' = Response("status",
                                IF matched = {} THEN 404 ELSE 200, 0)
     /\ UNCHANGED <<nextId, procVars>>

\* router.put("/status/:matCode")
SetStatus(matCode, status) ==
  LET matched == {i \in DOMAIN store : store[i].matCode = matCode}
  IN /\ IF status \notin RouteStatuses
        THEN /\ res' = Response("status", 400, 0)
             /\ UNCHANGED store
        ELSE /\ store' =
                  [i \in DOMAIN store |->
                     IF i \notin matched THEN store[i]
                     ELSE IF status = "out of stock"
                     THEN [store[i] EXCEPT !.status = status,
                                           !.availableQuantity = 0]
                     ELSE [store[i] EXCEPT !.status = status]]
             /\ res' = Response("status",
                                IF matched = {} THEN 404 ELSE 200, 0)
     /\ UNCHANGED <<nextId, procVars>>

UpdateStatus ==
  \E matCode \in MatCodes, status \in RouteStatuses \cup StatusEnum :
    SetStatus(matCode, status)

\* Mutant of Delete: a document that still has stock is not deleted.
DeleteIfDrained(id) ==
  /\ IF id \in DOMAIN store /\ store[id].availableQuantity = 0
     THEN /\ store' = Remove(store, {id})
          /\ res' = Response("delete", 200, 0)
     ELSE /\ res' = Response("delete", IF id \in DOMAIN store THEN 400
                                       ELSE 404, 0)
          /\ UNCHANGED store
  /\ UNCHANGED <<nextId, procVars>>

\* router.delete("/:id") with the _id of a document, stored or not
Delete(id) ==
  /\ IF id \in DOMAIN store
     THEN /\ store' = Remove(store, {id})
          /\ res' = Response("delete", 200, 0)
     ELSE /\ res' = Response("delete", 404, 0)
          /\ UNCHANGED store
  /\ UNCHANGED <<nextId, procVars>>

DeleteById == \E id \in 1..MaxBatches : Delete(id)

\* router.delete("/:id") with a parameter that is no id: findByIdAndDelete
\* rejects with a CastError, which is caught and answered 500.
DeleteByMalformedId ==
  /\ res' = Response("delete", 500, 0)
  /\ UNCHANGED <<store, nextId, procVars>>

\* router.delete("/by-code/:matCode")
DeleteCode(matCode) ==
  LET matched == {i \in DOMAIN store : store[i].matCode = matCode}
  IN /\ store' = Remove(store, matched)
     /\ res' = Response("deleteByCode", IF matched = {} THEN 404 ELSE 200, 0)
     /\ UNCHANGED <<nextId, procVars>>

DeleteByCode == \E matCode \in MatCodes : DeleteCode(matCode)

Next ==
  \/ AddMaterial
  \/ TakeMaterial
  \/ UpdateStatus
  \/ DeleteById
  \/ DeleteByMalformedId
  \/ DeleteByCode

Spec == Init /\ [][Next]_vars

\* ------------------------------------------- interleaved take requests
\* router.post("/take") up to the end of `await Material.find(...)` and the
\* two checks that follow it.
TakeBegin(p) ==
  /\ pc[p] = "idle"
  /\ \E matCode \in MatCodes, quantity \in RawQuantities, takenBy \in Users,
        date \in TakeDays :
       \E order \in SortedByDate(store, FindAvailable(store, matCode)) :
         LET materials == Loaded(store, order)
             qtyToTake == ToNumber(quantity)
             totalAvailable == TotalAvailable(materials)
             status == IF Len(materials) = 0 THEN 404
                       ELSE IF NumLt(Num(totalAvailable), qtyToTake) THEN 400
                       ELSE 0
         IN /\ req' = [req EXCEPT ![p] =
                         [ matCode |-> matCode, quantity |-> quantity,
                           takenBy |-> takenBy, date |-> date ]]
            /\ snap' = [snap EXCEPT ![p] = materials]
            /\ loop' = [loop EXCEPT ![p] =
                          [ qtyToTake |-> qtyToTake, next |-> 1,
                            saved |-> 0, status |-> status ]]
            /\ IF status = 0
               THEN pc' = [pc EXCEPT ![p] = "loop"] /\ UNCHANGED res
               ELSE /\ pc' = [pc EXCEPT ![p] = "done"]
                    /\ res' = TakeResponse(status, 0, matCode, quantity)
  /\ UNCHANGED <<store, nextId, otherVars>>

\* the loop has a next iteration
LoopGoesOn(p) ==
  /\ loop[p].next <= Len(snap[p])
  /\ ~NumLe(loop[p].qtyToTake, Num(0))

\* One iteration of the loop, to the end of its `await material.save()`.
TakeSave(p) ==
  /\ pc[p] = "loop"
  /\ LoopGoesOn(p)
  /\ LET m == snap[p][loop[p].next]
         d == Deduct(m.doc, loop[p].qtyToTake)
     IN IF ~SaveOk(store, m)
        THEN /\ pc' = [pc EXCEPT ![p] = "done"]
             /\ loop' = [loop EXCEPT ![p].status = 500]
             /\ res' = TakeResponse(500, loop[p].saved, req[p].matCode,
                                    req[p].quantity)
             /\ UNCHANGED store
        ELSE /\ store' = Save(store, m.id, d.availableQuantity,
                              UsageEvent(req[p].takenBy, d.used, req[p].date))
             /\ loop' = [loop EXCEPT ![p].qtyToTake = d.qtyToTake,
                                     ![p].next = @ + 1,
                                     ![p].saved = @ + 1]
             /\ UNCHANGED <<pc, res>>
  /\ UNCHANGED <<nextId, req, snap, otherVars>>

\* The loop is left and the request answered.
TakeEnd(p) ==
  /\ pc[p] = "loop"
  /\ ~LoopGoesOn(p)
  /\ pc' = [pc EXCEPT ![p] = "done"]
  /\ loop' = [loop EXCEPT ![p].status = 200]
  /\ res' = TakeResponse(200, loop[p].saved, req[p].matCode,
                         req[p].quantity)
  /\ UNCHANGED <<store, nextId, req, snap, otherVars>>

\* Requests handled one at a time before the two interleaved ones arrive.
TakeBefore == (\A p \in Procs : pc[p] = "idle") /\ TakeMaterial

NextConc ==
  \/ TakeBefore
  \/ \E p \in Procs : TakeBegin(p)
  \/ \E p \in Procs : TakeSave(p)
  \/ \E p \in Procs : TakeEnd(p)

SpecConc == Init /\ [][NextConc]_vars

\* ------------------------------------------------------------ read routes
\* The documents with _ids in `ids` as a find() without sort returns them:
\* in the order of a collection scan, which is the order of insertion.
RECURSIVE Scan(_)
Scan(ids) ==
  IF ids = {} THEN <<>>
  ELSE LET i == CHOOSE j \in ids : \A k \in ids : j <= k
       IN <<i>> \o Scan(ids \ {i})

ReadResponse(op, status, body) ==
  [Response(op, status, 0) EXCEPT !.body = body]

\* router.get("/")
ListMaterials ==
  /\ res' = ReadResponse("list", 200, Loaded(store, Scan(DOMAIN store)))
  /\ UNCHANGED <<store, nextId, procVars>>

\* materials.reduce((acc, mat) => { ...acc[mat.matCode].push(mat)... }, {})
\* and Object.entries(grouped).map(...): one entry per matCode, in the order
\* of first appearance, with the documents of that code in scan order.
RECURSIVE GroupByCode(_, _)
GroupByCode(materials, acc) ==
  IF materials = <<>> THEN acc
  ELSE LET mat == Head(materials)
           at  == {k \in DOMAIN acc : acc[k].matCode = mat.doc.matCode}
       IN GroupByCode(Tail(materials),
            IF at = {}
            THEN Append(acc, [matCode |-> mat.doc.matCode,
                              documents |-> <<mat>>])
            ELSE [k \in DOMAIN acc |->
                    IF k \in at
                    THEN [acc[k] EXCEPT !.documents = Append(@, mat)]
                    ELSE acc[k]])

\* router.get("/all-details-grouped")
AllDetailsGrouped ==
  /\ res' = ReadResponse("grouped", 200,
                         GroupByCode(Loaded(store, Scan(DOMAIN store)), <<>>))
  /\ UNCHANGED <<store, nextId, procVars>>

\* { $group: { _id: <key>, <total>: { $sum: <value> } } } over the stream
\* `docs` of [key, value]: the totals by key, one for each key in the stream.
RECURSIVE GroupSum(_, _)
GroupSum(docs, acc) ==
  IF docs = <<>> THEN acc
  ELSE LET d == Head(docs)
       IN GroupSum(Tail(docs),
            [k \in DOMAIN acc \cup {d.key} |->
               IF k = d.key
               THEN (IF k \in DOMAIN acc THEN acc[k] ELSE 0) + d.value
               ELSE acc[k]])

\* Mutant of AvailabilityStream: only the documents with stock are summed.
AvailabilityStreamInStock(st) ==
  LET ids == Scan({i \in DOMAIN st : st[i].availableQuantity > 0})
  IN [k \in DOMAIN ids |-> [key   |-> st[ids[k]].matCode,
                            value |-> st[ids[k]].availableQuantity]]

\* the stream into the $group of total-availability: every document of the
\* collection, with "$matCode" and "$availableQuantity"
AvailabilityStream(st) ==
  LET ids == Scan(DOMAIN st)
  IN [k \in DOMAIN ids |-> [key   |-> st[ids[k]].matCode,
                            value |-> st[ids[k]].availableQuantity]]

\* router.get("/total-availability"): the array answered, as a set
TotalAvailability(st) ==
  LET totals == GroupSum(AvailabilityStream(st), <<>>)
  IN {[_id |-> c, totalAvailable |-> totals[c]] : c \in DOMAIN totals}

GetTotalAvailability ==
  /\ res' = ReadResponse("totalAvailability", 200, TotalAvailability(store))
  /\ UNCHANGED <<store, nextId, procVars>>

\* { $unwind: "$usageHistory" }: one document for each element of each
\* document's usageHistory, none for a document whose usageHistory is empty;
\* here with "$matCode" and "$usageHistory.quantity"
RECURSIVE Unwind(_, _)
Unwind(st, ids) ==
  IF ids = <<>> THEN <<>>
  ELSE LET doc == st[Head(ids)]
       IN [k \in DOMAIN doc.usageHistory |->
             [key |-> doc.matCode, value |-> doc.usageHistory[k].quantity]]
          \o Unwind(st, Tail(ids))

\* router.get("/total-consumed"): the array answered, as a set
TotalConsumed(st) ==
  LET totals == GroupSum(Unwind(st, Scan(DOMAIN st)), <<>>)
  IN {[_id |-> c, totalConsumed |-> totals[c]] : c \in DOMAIN totals}

GetTotalConsumed ==
  /\ res' = ReadResponse("totalConsumed", 200, TotalConsumed(store))
  /\ UNCHANGED <<store, nextId, procVars>>

\* ---------------------------------------------------------- monthly report
\* Dates are instants counted in ticks. A day has DayTicks instants, the
\* first being 00:00:00.000 and the last 23:59:59.999; a month has MonthDays
\* days.
DayTicks  == 2
MonthDays == 2

ReportYears    == {2024}
ReportMonths   == {1, 2}
ReportProjects == {"p1", "p2"}

\* new Date(year, monthIndex, day, hours, minutes, seconds, ms) with the time
\* of day as a tick: a day or monthIndex out of range carries over, so that
\* day 0 is the last day of the month before.
NewDate(year, monthIndex, day, tick) ==
  ((year * 12 + monthIndex) * MonthDays + (day - 1)) * DayTicks + tick

\* Values of `month` and `year` in the query string: absent, or a string
\* that +value turns into a number or into NaN.
QueryMonths == [kind : {"num"}, v : ReportMonths] \cup {Absent, NoQuantity}
QueryYears  == [kind : {"num"}, v : ReportYears] \cup {Absent}

\* Mutant of getMonthRange: end is new Date(year, month, 0), the first
\* instant of the last day.
GetMonthRangeEndAtMidnight(year, month) ==
  IF year.nan \/ month.nan THEN [start |-> NaN, end |-> NaN]
  ELSE [ start |-> Num(NewDate(year.v, month.v - 1, 1, 0)),
         end   |-> Num(NewDate(year.v, month.v, 0, 0)) ]

\* getMonthRange(year, month); a NaN argument gives two invalid dates.
getMonthRange(year, month) ==
  IF year.nan \/ month.nan THEN [start |-> NaN, end |-> NaN]
  ELSE [ start |-> Num(NewDate(year.v, month.v - 1, 1, 0)),
         end   |-> Num(NewDate(year.v, month.v, 0, DayTicks - 1)) ]

\* Mutant of WithinMonth: the first instant of the month is left out.
WithinMonthAfterStart(date, range) ==
  NumLt(range.start, Num(date)) /\ NumLe(Num(date), range.end)

\* date >= start && date <= end; false when start and end are invalid dates
WithinMonth(date, range) ==
  NumGe(Num(date), range.start) /\ NumLe(Num(date), range.end)

\* date.toISOString().split("T")[0]: the calendar day of the instant
IsoDay(date) == date \div DayTicks

\* the `additions` of a report line
Additions(mat, range) ==
  << [ date        |-> IsoDay(mat.date),
       quantity    |-> mat.quantity,
       addedBy     |-> mat.addedBy,
       withinMonth |-> WithinMonth(mat.date, range) ] >>

\* the `consumptions` of a report line
Consumptions(mat, range) ==
  [k \in DOMAIN mat.usageHistory |->
     LET c == mat.usageHistory[k]
     IN [ date        |-> IsoDay(c.date),
          quantity    |-> c.quantity,
          consumedBy  |-> IF c.takenBy = Undefined THEN "N/A" ELSE c.takenBy,
          withinMonth |-> WithinMonth(c.date, range) ]]

\* consumptions.filter((c) => c.withinMonth)
\*             .reduce((sum, c) => sum + c.quantity, 0)
RECURSIVE MonthlyConsumed(_)
MonthlyConsumed(consumptions) ==
  IF consumptions = <<>> THEN 0
  ELSE (IF Head(consumptions).withinMonth THEN Head(consumptions).quantity
        ELSE 0) + MonthlyConsumed(Tail(consumptions))

\* materials.map((mat) => ...): the report line of one document
ReportLine(mat, range) ==
  [ matCode         |-> mat.matCode,
    matName         |-> mat.name,
    remaining       |-> mat.availableQuantity,
    additions       |-> Additions(mat, range),
    consumptions    |-> Consumptions(mat, range),
    monthlyAdded    |-> IF WithinMonth(mat.date, range) THEN mat.quantity
                        ELSE 0,
    monthlyConsumed |-> MonthlyConsumed(Consumptions(mat, range)) ]

\* Mutant of FindOfProject: the filter on projectAssigned is missing.
FindOfAnyProject(st, projectId) == DOMAIN st

\* Material.find({ projectAssigned: projectId })
FindOfProject(st, projectId) ==
  {i \in DOMAIN st : st[i].projectAssigned = projectId}

\* Mutant of Report: the usage events outside the month are removed from the
\* documents found, which are saved.
ReportPruning(projectId, month, year) ==
  /\ IF month = Absent \/ year = Absent
     THEN res' = ReadResponse("report", 400, <<>>) /\ UNCHANGED store
     ELSE IF projectId \in MalformedIds
     THEN res' = ReadResponse("report", 500, <<>>) /\ UNCHANGED store
     ELSE LET range     == getMonthRange(ToNumber(year), ToNumber(month))
              materials == Scan(FindOfProject(store, projectId))
          IN /\ res' = [ ReadResponse("report", 200,
                           [k \in DOMAIN materials |->
                              ReportLine(store[materials[k]], range)])
                         EXCEPT !.materials = materials,
                                !.query = [ projectId |-> projectId,
                                            year |-> year, month |-> month ] ]
             /\ store' =
                  [i \in DOMAIN store |->
                     IF store[i].projectAssigned # projectId THEN store[i]
                     ELSE [store[i] EXCEPT !.usageHistory =
                             SelectSeq(@, LAMBDA c :
                                            WithinMonth(c.date, range))]]
  /\ UNCHANGED <<nextId, procVars>>

\* router.get("/material-report/:projectId") with the given parameter and
\* query; a projectId that is no id makes the find reject, answered 500.
Report(projectId, month, year) ==
  /\ IF month = Absent \/ year = Absent
     THEN res' = ReadResponse("report", 400, <<>>)
     ELSE IF projectId \in MalformedIds
     THEN res' = ReadResponse("report", 500, <<>>)
     ELSE LET range     == getMonthRange(ToNumber(year), ToNumber(month))
              materials == Scan(FindOfProject(store, projectId))
          IN res' = [ ReadResponse("report", 200,
                        [k \in DOMAIN materials |->
                           ReportLine(store[materials[k]], range)])
                      EXCEPT !.materials = materials,
                             !.query = [ projectId |-> projectId,
                                         year |-> year, month |-> month ] ]
  /\ UNCHANGED <<store, nextId, procVars>>

MaterialReport ==
  \E projectId \in ReportProjects \cup MalformedIds,
     month \in QueryMonths, year \in QueryYears :
    Report(projectId, month, year)

\* ------------------------------------- the routes over two months' history
\* Delivery and take dates at the ends of the months: deliveries at the
\* first instant of the first and of the second month, takes at the last
\* instant of the first month and at the first of the second.
ReportDates ==
  UNION { { NewDate(y, 0, 1, 0), NewDate(y, 1, 1, 0) } : y \in ReportYears }
ReportTakeDates ==
  UNION { { NewDate(y, 0, MonthDays, DayTicks - 1), NewDate(y, 1, 1, 0) }
          : y \in ReportYears }

ReportDeliveries ==
  { StoredDelivery(c, q, d, p) : c \in MatCodes, q \in 1..MaxQty,
                                 d \in ReportDates, p \in ReportProjects }

InitRead ==
  /\ \E n \in 0..MaxBatches :
       /\ store \in [1..n -> ReportDeliveries]
       /\ \A i, j \in 1..n : i < j => KeyLe(Key(store[i]), Key(store[j]))
       /\ nextId = n + 1
  /\ res = NoRes
  /\ pc = [p \in Procs |-> "idle"]
  /\ req = [p \in Procs |-> NoReq]
  /\ snap = [p \in Procs |-> <<>>]
  /\ loop = [p \in Procs |-> NoLoop]
  /\ InitOthers

\* take requests dated in either month, of a positive quantity and with
\* every save carried out
TakeMaterialDated ==
  \E matCode \in MatCodes, v \in 1..MaxTake, takenBy \in Users,
     date \in ReportTakeDates :
    Take(matCode, [kind |-> "num", v |-> v], takenBy, date, 0)

NextRead ==
  \/ TakeMaterialDated
  \/ ListMaterials
  \/ AllDetailsGrouped
  \/ GetTotalAvailability
  \/ GetTotalConsumed
  \/ MaterialReport

SpecRead == InitRead /\ [][NextRead]_vars

\* ------------------------------------------------------------ attendance
\* router.post("/") of routes/attendance.js, the router app.js mounts on
\* /api/attendance.  Instants are ticks as in the reports, DayTicks to the
\* local calendar day.
AttendanceDays == 2
MaxRecords     == 4
Employees == {"e1", "e2"}
AttendanceStatuses == {"Present", "Absent"}
AttendanceInstants == 0 .. (AttendanceDays * DayTicks - 1)
\* `date` of the body: an instant, missing, or text that is no date
InvalidDate == [kind |-> "invalid", v |-> 0]
RawDates == {[kind |-> "date", v |-> t] : t \in AttendanceInstants}
              \cup {Absent, InvalidDate}

\* moment(date).startOf("day").toDate(); moment(undefined) is the current
\* time, read from the server clock
StartOfDay(t) == (t \div DayTicks) * DayTicks
NormalizedDate(date, clock) ==
  IF date.kind = "date" THEN [kind |-> "date", v |-> StartOfDay(date.v)]
  ELSE IF date.kind = "absent" THEN [kind |-> "date", v |-> StartOfDay(clock)]
  ELSE InvalidDate

\* the exact-date lookup `Attendance.findOne({ employeeId, date })`
FindExistingExactDate(att, employeeId, date, normalizedDate) ==
  {i \in DOMAIN att : att[i].employeeId = employeeId /\ att[i].date = date.v}
\* Attendance.findOne({employeeId, date: {$gte: normalizedDate,
\*                     $lt: moment(normalizedDate).add(1, "day").toDate()}})
FindExisting(att, employeeId, date, normalizedDate) ==
  {i \in DOMAIN att :
     /\ att[i].employeeId = employeeId
     /\ att[i].date >= normalizedDate.v
     /\ att[i].date < normalizedDate.v + DayTicks}

\* attendanceSchema: employeeId an ObjectId, status of the enum, inTime,
\* outTime and date required (`work` is optional and left out)
ValidateAttendance(doc) ==
  /\ doc.employeeId \in Employees
  /\ doc.status \in AttendanceStatuses
  /\ doc.inTime # Undefined
  /\ doc.outTime # Undefined

AttendanceResponse(status, employeeId, date) ==
  [ Response("attendance", status, IF status = 201 THEN 1 ELSE 0)
      EXCEPT !.query = [employeeId |-> employeeId, date |-> date] ]

\* The whole handler.  A malformed employeeId or an invalid date makes the
\* query throw a CastError, a document the schema rejects makes save() throw:
\* both are answered 500 by the catch.
MarkAttendance(employeeId, status, inTime, outTime, date, clock) ==
  LET normalizedDate == NormalizedDate(date, clock)
      doc == [ employeeId |-> employeeId, status |-> status,
               inTime |-> inTime, outTime |-> outTime,
               date |-> normalizedDate.v ]
  IN /\ IF employeeId \in MalformedIds \/ normalizedDate.kind = "invalid"
        THEN /\ res' = AttendanceResponse(500, employeeId, date)
             /\ UNCHANGED attendance
        ELSE IF FindExisting(attendance, employeeId, date, normalizedDate) # {}
        THEN /\ res' = AttendanceResponse(400, employeeId, date)
             /\ UNCHANGED attendance
        ELSE IF ~ValidateAttendance(doc)
        THEN /\ res' = AttendanceResponse(500, employeeId, date)
             /\ UNCHANGED attendance
        ELSE /\ Len(attendance) < MaxRecords
             /\ attendance' = Append(attendance, doc)
             /\ res' = AttendanceResponse(201, employeeId, date)
     /\ UNCHANGED <<store, nextId, pc, req, snap, loop, users, now>>

PostAttendance ==
  \E employeeId \in Employees \cup MalformedIds \cup {Undefined},
     status \in AttendanceStatuses \cup {Undefined},
     inTime \in {"09:00", Undefined}, outTime \in {"18:00", Undefined},
     date \in RawDates :
    \* the clock is read for a missing date only
    \E clock \in IF date = Absent THEN AttendanceInstants ELSE {0} :
      MarkAttendance(employeeId, status, inTime, outTime, date, clock)

InitAttendance ==
  /\ InitStore(0)
  /\ res = NoRes
  /\ pc = [p \in Procs |-> "idle"]
  /\ req = [p \in Procs |-> NoReq]
  /\ snap = [p \in Procs |-> <<>>]
  /\ loop = [p \in Procs |-> NoLoop]
  /\ InitOthers

NextAttendance == PostAttendance

SpecAttendance == InitAttendance /\ [][NextAttendance]_vars

\* ------------------------------------------------------------------ auth
\* The routes of /api/auth and /api/users that write the otp, isActive or the
\* existence of a User document.  The clock counts minutes.
OtpTtl == 10
MaxNow == 12
Username(a) == "user1"
Password == "secret"
\* `username` and `password` of a login body: "ab" and "abc" are too short
\* for the validators
RawUsernames == {"user1", "nobody", "ab"}
RawPasswords == {Password, "wrong", "abc"}
\* `otp` of a verify-otp body and its length ("" for a missing one)
RawOtps == {"1234", "0000", "12", Undefined}
OtpLength(otp) ==
  CASE otp = "1234" -> 4
    [] otp = "0000" -> 4
    [] otp = "12"   -> 2
    [] OTHER        -> 0
\* body('otp').isLength({ min: 4, max: 6 })
OtpWellFormed(otp) == OtpLength(otp) >= 4 /\ OtpLength(otp) <= 6
\* body('userId').isMongoId()
IsMongoId(userId) == userId \notin MalformedIds \cup {Undefined}

\* userSchema.methods.generateOTP
generateOTP(t) ==
  [ code |-> "1234", expiresAt |-> [kind |-> "date", v |-> t + OtpTtl],
    verified |-> FALSE ]
\* `this.otp.expiresAt < new Date()`: false when expiresAt is undefined
Expired(otp, t) == otp.expiresAt.kind = "date" /\ otp.expiresAt.v < t
\* verifyOTP without its first line
verifyOTPReusable(otp, inputOtp, t) ==
  IF Expired(otp, t) THEN [valid |-> FALSE, otp |-> otp]
  ELSE IF otp.code = inputOtp
  THEN [valid |-> TRUE, otp |-> [otp EXCEPT !.verified = TRUE]]
  ELSE [valid |-> FALSE, otp |-> otp]
\* userSchema.methods.verifyOTP: its result and the otp it leaves in the
\* document
verifyOTP(otp, inputOtp, t) ==
  IF otp.verified THEN [valid |-> FALSE, otp |-> otp]
  ELSE IF Expired(otp, t) THEN [valid |-> FALSE, otp |-> otp]
  ELSE IF otp.code = inputOtp
  THEN [valid |-> TRUE, otp |-> [otp EXCEPT !.verified = TRUE]]
  ELSE [valid |-> FALSE, otp |-> otp]

AuthResponse(op, status, userId, otp) ==
  [ Response(op, status, 0)
      EXCEPT !.query = [userId |-> userId, otp |-> otp] ]
authIdle == <<store, nextId, pc, req, snap, loop, attendance>>

\* User.findOne({ username, isActive: true })
FindByUsername(us, username) ==
  {a \in DOMAIN us : Username(a) = username /\ us[a].isActive}

\* router.post('/login')
Login(username, password) ==
  /\ IF username = "ab" \/ password = "abc"
     THEN res' = AuthResponse("login", 400, Undefined, Undefined)
            /\ UNCHANGED users
     ELSE IF FindByUsername(users, username) = {}
     THEN res' = AuthResponse("login", 401, Undefined, Undefined)
            /\ UNCHANGED users
     ELSE \E a \in FindByUsername(users, username) :
            IF password # Password
            THEN res' = AuthResponse("login", 401, a, Undefined)
                   /\ UNCHANGED users
            ELSE /\ users' = [users EXCEPT ![a].otp = generateOTP(now)]
                 /\ res' = AuthResponse("login", 200, a, "1234")
  /\ UNCHANGED <<authIdle, now>>

\* router.post('/verify-otp')
VerifyOtp(userId, otp) ==
  /\ IF ~IsMongoId(userId) \/ ~OtpWellFormed(otp)
     THEN res' = AuthResponse("verify", 400, userId, otp) /\ UNCHANGED users
     ELSE IF userId \notin DOMAIN users \/ ~users[userId].isActive
     THEN res' = AuthResponse("verify", 404, userId, otp) /\ UNCHANGED users
     ELSE LET v == verifyOTP(users[userId].otp, otp, now)
          IN IF ~v.valid
             THEN res' = AuthResponse("verify", 401, userId, otp)
                    /\ UNCHANGED users
             ELSE /\ users' = [users EXCEPT ![userId].otp = v.otp]
                  /\ res' = AuthResponse("verify", 200, userId, otp)
  /\ UNCHANGED <<authIdle, now>>

\* router.post('/resend-otp')
ResendOtp(userId) ==
  /\ IF ~IsMongoId(userId)
     THEN res' = AuthResponse("resend", 400, userId, Undefined)
            /\ UNCHANGED users
     ELSE IF userId \notin DOMAIN users \/ ~users[userId].isActive
     THEN res' = AuthResponse("resend", 404, userId, Undefined)
            /\ UNCHANGED users
     ELSE /\ users' = [users EXCEPT ![userId].otp = generateOTP(now)]
          /\ res' = AuthResponse("resend", 200, userId, "1234")
  /\ UNCHANGED <<authIdle, now>>

\* router.post('/logout'): `$unset: { otp: 1 }` on the user of the token; a
\* document loaded afterwards has the defaults of the schema in its otp
Logout(userId) ==
  /\ userId \in DOMAIN users
  /\ users' = [users EXCEPT ![userId].otp = NoOtp]
  /\ res' = AuthResponse("logout", 200, userId, Undefined)
  /\ UNCHANGED <<authIdle, now>>

\* router.put("/refresh-all"): `$unset: { otp: 1 }` on every user
RefreshAll ==
  /\ users' = [a \in DOMAIN users |-> [users[a] EXCEPT !.otp = NoOtp]]
  /\ res' = AuthResponse("refresh", 200, Undefined, Undefined)
  /\ UNCHANGED <<authIdle, now>>

\* router.put("/:id/status")
SetUserStatus(userId, isActive) ==
  /\ IF userId \in MalformedIds
     THEN res' = AuthResponse("userStatus", 500, userId, Undefined)
            /\ UNCHANGED users
     ELSE IF userId \notin DOMAIN users
     THEN res' = AuthResponse("userStatus", 404, userId, Undefined)
            /\ UNCHANGED users
     ELSE /\ users' = [users EXCEPT ![userId].isActive = isActive]
          /\ res' = AuthResponse("userStatus", 200, userId, Undefined)
  /\ UNCHANGED <<authIdle, now>>

\* router.delete("/:id") of the users
DeleteUser(userId) ==
  /\ IF userId \in MalformedIds
     THEN res' = AuthResponse("userDelete", 500, userId, Undefined)
            /\ UNCHANGED users
     ELSE IF userId \notin DOMAIN users
     THEN res' = AuthResponse("userDelete", 404, userId, Undefined)
            /\ UNCHANGED users
     ELSE /\ users' = [a \in DOMAIN users \ {userId} |-> users[a]]
          /\ res' = AuthResponse("userDelete", 200, userId, Undefined)
  /\ UNCHANGED <<authIdle, now>>

\* a minute passes
Tick ==
  /\ now < MaxNow
  /\ now' = now + 1
  /\ UNCHANGED <<authIdle, users, res>>

UserIds == Accounts \cup UnknownIds \cup MalformedIds
NextAuth ==
  \/ \E username \in RawUsernames, password \in RawPasswords :
       Login(username, password)
  \/ \E userId \in UserIds \cup {Undefined}, otp \in RawOtps :
       VerifyOtp(userId, otp)
  \/ \E userId \in UserIds \cup {Undefined} : ResendOtp(userId)
  \/ \E userId \in Accounts : Logout(userId)
  \/ RefreshAll
  \/ \E userId \in UserIds, isActive \in BOOLEAN :
       SetUserStatus(userId, isActive)
  \/ \E userId \in UserIds : DeleteUser(userId)
  \/ Tick

InitAuth == InitAttendance

SpecAuth == InitAuth /\ [][NextAuth]_vars

\* ---------------------------------------------------------------- claims
\* the batches of material code c
OfCode(st, c) == {i \in DOMAIN st : st[i].matCode = c}

\* sum of availableQuantity over the batches in S
RECURSIVE AvailSum(_, _)
AvailSum(st, S) ==
  IF S = {} THEN 0
  ELSE LET i == CHOOSE j \in S : TRUE
       IN st[i].availableQuantity + AvailSum(st, S \ {i})

\* sum of the usage events' quantities over the batches in S
RECURSIVE UsageSum(_, _)
UsageSum(st, S) ==
  IF S = {} THEN 0
  ELSE LET i == CHOOSE j \in S : TRUE
       IN SumQty(st[i].usageHistory) + UsageSum(st, S \ {i})

\* aggregate remaining of material code c
Aggregate(st, c) == AvailSum(st, OfCode(st, c))

\* the request quantity is a positive number
Positive(quantity) == quantity.kind = "num" /\ quantity.v > 0

\* ---------------------------------------------------------------------
\* C1: after any sequence of add and take requests (and of the other
\* routes), every stored batch has 0 <= availableQuantity <= quantity.
C1_RemainingInRange ==
  \A i \in DOMAIN store :
    /\ 0 <= store[i].availableQuantity
    /\ store[i].availableQuantity <= store[i].quantity

\* a take has succeeded and left a batch partly consumed
C1_Witness ==
  /\ res.op = "take" /\ res.status = 200
  /\ \E i \in DOMAIN store :
       /\ 0 < store[i].availableQuantity
       /\ store[i].availableQuantity < store[i].quantity

\* ---------------------------------------------------------------------
\* C2 as claimed: in every reachable state each batch has
\* availableQuantity = quantity - sum of usageHistory[].quantity.
C2_LedgerExact ==
  \A i \in DOMAIN store :
    store[i].availableQuantity =
      store[i].quantity - SumQty(store[i].usageHistory)

\* C2 as amended: each batch has availableQuantity = quantity - sum of
\* usageHistory[].quantity, except that a batch whose code a bulk status
\* update has set out of stock has availableQuantity = 0, with the sum of
\* its usage events at most its quantity.
C2_LedgerExactUnlessZeroed ==
  \A i \in DOMAIN store :
    \/ store[i].availableQuantity =
         store[i].quantity - SumQty(store[i].usageHistory)
    \/ /\ store[i].status \in RouteStatuses
       /\ store[i].availableQuantity = 0
       /\ SumQty(store[i].usageHistory) <= store[i].quantity

\* a partly consumed batch has been set out of stock
C2_Witness ==
  /\ res.op = "status" /\ res.status = 200
  /\ \E i \in DOMAIN store :
       /\ store[i].status = "out of stock"
       /\ store[i].usageHistory # <<>>
       /\ store[i].availableQuantity <
            store[i].quantity - SumQty(store[i].usageHistory)

\* ---------------------------------------------------------------------
\* a take request with a numeric quantity above the aggregate remaining of
\* its material code has just been answered
TakeAboveAggregate ==
  /\ res'.op = "take"
  /\ res'.quantity.kind = "num"
  /\ Aggregate(store, res'.matCode) < res'.quantity.v

\* C3 as claimed: a take of quantity Q from a material code whose aggregate
\* remaining is less than Q is answered 400 and changes no batch.
C3_InsufficientIs400 ==
  [][(TakeAboveAggregate /\ OfCode(store, res'.matCode) # {})
       => (res'.status = 400 /\ store' = store)]_vars

\* C3 as amended: such a take changes no batch and is answered 400 when
\* some batch of the code has positive remaining, 404 when none has.
C3_InsufficientRejected ==
  [][TakeAboveAggregate
       => /\ store' = store
          /\ res'.status =
               IF FindAvailable(store, res'.matCode) = {} THEN 404
               ELSE 400]_vars

\* a take was answered 400 while its code has stock
C3_Witness ==
  /\ res.op = "take" /\ res.status = 400
  /\ Aggregate(store, res.matCode) > 0

\* ---------------------------------------------------------------------
\* the step appends usage events summing to n to the batches of code c and
\* lowers the aggregate remaining of c by n
TakenExactly(c, n) ==
  /\ Aggregate(store, c) - Aggregate(store', c) = n
  /\ UsageSum(store', OfCode(store, c)) - UsageSum(store, OfCode(store, c)) = n

\* C4: when a take of quantity Q is answered 200, the quantities of the
\* usage events it appended sum to Q and the aggregate remaining of the
\* code has decreased by Q.
C4_SuccessTakesExactlyQ ==
  [][(res'.op = "take" /\ res'.status = 200)
       => /\ res'.quantity.kind = "num"
          /\ TakenExactly(res'.matCode, res'.quantity.v)]_vars

\* C4 restricted to the requests whose quantity is a positive number.
PositiveTakesExactlyQ ==
  [][(res'.op = "take" /\ res'.status = 200 /\ Positive(res'.quantity))
       => TakenExactly(res'.matCode, res'.quantity.v)]_vars

\* ---------------------------------------------------------------------
\* C5: a take answered 200 deducts oldest first: of two batches of one code
\* that both had positive remaining, if the later-dated one was deducted
\* from, the earlier-dated one is left with availableQuantity 0.
C5_OldestFirst ==
  [][(res'.op = "take" /\ res'.status = 200 /\ store' # store)
       => \A x, y \in DOMAIN store :
            ( /\ store[x].matCode = store[y].matCode
              /\ store[x].availableQuantity > 0
              /\ store[y].availableQuantity > 0
              /\ store[x].date < store[y].date
              /\ store'[y].availableQuantity < store[y].availableQuantity )
              => store'[x].availableQuantity = 0]_vars

\* the scenario of the claim: the older batch is drained, the newer one
\* partly consumed, with one usage event on each
C5_Witness ==
  /\ res.op = "take" /\ res.status = 200 /\ res.saved = 2
  /\ \E x, y \in DOMAIN store :
       /\ store[x].matCode = store[y].matCode
       /\ store[x].date < store[y].date
       /\ store[x].availableQuantity = 0
       /\ Len(store[x].usageHistory) = 1
       /\ store[x].usageHistory[1].quantity = store[x].quantity
       /\ 0 < store[y].availableQuantity
       /\ Len(store[y].usageHistory) = 1
       /\ store[y].usageHistory[1].quantity =
            store[y].quantity - store[y].availableQuantity

\* ---------------------------------------------------------------------
\* C6: with requests applied one at a time, the usage events of a batch
\* never sum to more than its delivered quantity.
C6_UsageWithinDelivered ==
  \A i \in DOMAIN store :
    SumQty(store[i].usageHistory) <= store[i].quantity

\* a batch has been consumed entirely, over more than one take
C6_Witness ==
  \E i \in DOMAIN store :
    /\ Len(store[i].usageHistory) >= 2
    /\ SumQty(store[i].usageHistory) = store[i].quantity

\* ---------------------------------------------------------------------
\* the two interleaved requests both read the documents of one material code
\* before either saved, asked for positive quantities and were answered 200
BothSucceeded ==
  /\ \A p \in Procs : pc[p] = "done" /\ loop[p].status = 200
                        /\ Positive(req[p].quantity)
  /\ req[1].matCode = req[2].matCode
  /\ {snap[1][k] : k \in DOMAIN snap[1]} = {snap[2][k] : k \in DOMAIN snap[2]}

\* the documents the first request read
ReadIds == {snap[1][k].id : k \in DOMAIN snap[1]}

RECURSIVE LoadedUsage(_)
LoadedUsage(materials) ==
  IF materials = <<>> THEN 0
  ELSE SumQty(Head(materials).doc.usageHistory) + LoadedUsage(Tail(materials))

\* quantity recorded in usage events, and quantity removed from
\* availableQuantity, since the two requests read
RecordedSinceRead == UsageSum(store, ReadIds) - LoadedUsage(snap[1])
RemovedSinceRead  == TotalAvailable(snap[1]) - AvailSum(store, ReadIds)

\* the two requests asked for more than the aggregate remaining they read
OverAllocated ==
  req[1].quantity.v + req[2].quantity.v > TotalAvailable(snap[1])

\* C7: two take requests on one material code that both read before either
\* saves can both be answered 200 although their quantities sum to more than
\* the aggregate remaining; whenever they are, the usage events they
\* recorded sum to more than what was removed from availableQuantity.
C7_OverAllocationLosesUpdate ==
  (BothSucceeded /\ OverAllocated) => RecordedSinceRead > RemovedSinceRead

\* both requests succeeded on an over-allocated code
C7_Witness ==
  /\ BothSucceeded /\ OverAllocated
  /\ RecordedSinceRead > RemovedSinceRead

\* ---------------------------------------------------------------------
\* C8: under every interleaving of take requests, no batch's
\* availableQuantity is negative.
C8_NeverNegative ==
  \A i \in DOMAIN store : store[i].availableQuantity >= 0

\* both requests are in their loops and have saved the same document
C8_Witness ==
  /\ \A p \in Procs : pc[p] = "loop" /\ loop[p].saved >= 1
  /\ snap[1][1].id = snap[2][1].id

\* ---------------------------------------------------------------------
\* the documents the step changed
Changed == {i \in DOMAIN store : i \notin DOMAIN store' \/ store'[i] # store[i]}

\* C9: a take request whose save fails after N documents were saved is
\* answered 500 with those N documents left as saved (each deducted from,
\* with its usage event appended) and less than the requested quantity
\* deducted in all.
C9_NoRollback ==
  [][(res'.op = "take" /\ res'.status = 500)
       => /\ DOMAIN store' = DOMAIN store
          /\ Cardinality(Changed) = res'.saved
          /\ \A i \in Changed :
               /\ store'[i].availableQuantity < store[i].availableQuantity
               /\ Len(store'[i].usageHistory) = Len(store[i].usageHistory) + 1
               /\ SubSeq(store'[i].usageHistory, 1,
                         Len(store[i].usageHistory)) = store[i].usageHistory
               /\ store'[i].usageHistory[Len(store'[i].usageHistory)].quantity
                    = store[i].availableQuantity - store'[i].availableQuantity
          /\ res'.quantity.kind = "num"
               => Aggregate(store, res'.matCode)
                    - Aggregate(store', res'.matCode) < res'.quantity.v]_vars

\* a take request was answered 500 after saving a document: part of the
\* requested quantity is deducted and recorded
C9_Witness ==
  /\ res.op = "take" /\ res.status = 500 /\ res.saved >= 1
  /\ \E i \in OfCode(store, res.matCode) : store[i].usageHistory # <<>>

\* ---------------------------------------------------------------------
\* C10: a take request whose quantity is not a positive number is answered
\* with an error and changes no batch.
C10_NonPositiveRejected ==
  [][(res'.op = "take" /\ ~Positive(res'.quantity))
       => (res'.status >= 400 /\ store' = store)]_vars

\* C10, the part on the answer alone.
NonPositiveNeverSucceeds ==
  (res.op = "take" /\ ~Positive(res.quantity)) => res.status # 200

\* ---------------------------------------------------------------------
\* C11: a take request for a material code none of whose batches has
\* availableQuantity > 0 (no batch of the code, or all of them drained) is
\* answered 404 and changes no batch.
C11_NoStockIs404 ==
  [][( /\ res'.op = "take"
       /\ \A i \in OfCode(store, res'.matCode) :
            store[i].availableQuantity <= 0 )
       => (res'.status = 404 /\ store' = store)]_vars

\* a take was answered 404 on a code whose batches are all drained
C11_Witness ==
  /\ res.op = "take" /\ res.status = 404
  /\ OfCode(store, res.matCode) # {}
  /\ \E i \in OfCode(store, res.matCode) : store[i].usageHistory # <<>>

\* ---------------------------------------------------------------------
\* the step adds exactly one batch, with availableQuantity equal to its
\* quantity and no usage event, and leaves the other batches as they were
OneBatchCreated ==
  \E id \in DOMAIN store' :
    /\ id \notin DOMAIN store
    /\ DOMAIN store' = DOMAIN store \cup {id}
    /\ store'[id].availableQuantity = store'[id].quantity
    /\ store'[id].usageHistory = <<>>
    /\ \A i \in DOMAIN store : store'[i] = store[i]

\* C12: an add request whose projectAssigned is the id of an existing
\* project creates exactly one new batch whose availableQuantity equals its
\* quantity, with an empty usage log, and leaves the existing batches
\* unchanged.
C12_AddCreatesOneBatch ==
  [][\A matCode \in MatCodes, quantity \in 1..MaxQty, date \in Days,
        projectAssigned \in Projects :
       Add(matCode, quantity, date, projectAssigned) => OneBatchCreated]_vars

\* ---------------------------------------------------------------------
\* C13: an add request whose projectAssigned names no existing project is
\* answered 400 and creates no batch; every stored batch has a
\* projectAssigned.
C13_UnknownProjectIs400 ==
  /\ [][\A matCode \in MatCodes, quantity \in 1..MaxQty, date \in Days,
          projectAssigned \in UnknownIds \cup MalformedIds :
         Add(matCode, quantity, date, projectAssigned)
           => (res'.status = 400 /\ store' = store)]_vars
  /\ [](\A i \in DOMAIN store : store[i].projectAssigned # Undefined)

\* C13 for the well-formed ids of no project, and with any error answer for
\* the others.
UnknownProjectRejected ==
  /\ [][\A matCode \in MatCodes, quantity \in 1..MaxQty, date \in Days,
          projectAssigned \in UnknownIds \cup MalformedIds :
         Add(matCode, quantity, date, projectAssigned)
           => /\ store' = store
              /\ res'.status = IF projectAssigned \in UnknownIds THEN 400
                               ELSE 500]_vars
  /\ [](\A i \in DOMAIN store : store[i].projectAssigned # Undefined)

\* ---------------------------------------------------------------------
\* the material codes that have a batch in the store
CodesPresent == {store[i].matCode : i \in DOMAIN store}

\* C14: total-availability answers, for every material code that has a
\* batch in the store, the sum of availableQuantity over all the batches of
\* that code as the store is now, those with nothing left included.
C14_TotalAvailabilityExact ==
  res.op = "totalAvailability"
    => res.body = { [_id |-> c, totalAvailable |-> Aggregate(store, c)] :
                    c \in CodesPresent }

\* the totals were read for a code with a drained batch and one with stock
C14_Witness ==
  /\ res.op = "totalAvailability"
  /\ \E x, y \in DOMAIN store :
       /\ store[x].matCode = store[y].matCode
       /\ store[x].availableQuantity = 0
       /\ store[y].availableQuantity > 0
       /\ store[x].usageHistory # <<>>

\* ---------------------------------------------------------------------
\* C15: total-consumed answers, for every material code that has a batch in
\* the store, the sum of the usage events' quantities over the batches of
\* that code, 0 for a code whose batches have no usage event.
C15_TotalConsumedEveryCode ==
  res.op = "totalConsumed"
    => res.body =
         { [_id |-> c, totalConsumed |-> UsageSum(store, OfCode(store, c))] :
           c \in CodesPresent }

\* C15 for the codes that have a usage event; the others have no entry.
TotalConsumedOfUsedCodes ==
  res.op = "totalConsumed"
    => res.body =
         { [_id |-> c, totalConsumed |-> UsageSum(store, OfCode(store, c))] :
           c \in { d \in CodesPresent :
                     \E i \in OfCode(store, d) :
                       store[i].usageHistory # <<>> } }

\* ---------------------------------------------------------------------
ReadOps == {"list", "grouped", "totalAvailability", "totalConsumed", "report"}

\* C16: the read requests (list, all-details-grouped, total-availability,
\* total-consumed, monthly report) leave the store as it is: no batch is
\* created or deleted and no field of a batch changes.
C16_ReadsChangeNothing ==
  [][res'.op \in ReadOps => store' = store]_vars

\* a report was answered for a month that some usage event lies outside
C16_Witness ==
  /\ res.op = "report" /\ res.status = 200
  /\ \E k \in DOMAIN res.body :
       \E c \in DOMAIN res.body[k].consumptions :
         ~res.body[k].consumptions[c].withinMonth

\* ---------------------------------------------------------------------
\* the instant d lies in the month of the query: from its first instant to
\* 23:59:59.999 of its last day
InMonth(d, q) ==
  /\ q.year.kind = "num" /\ q.month.kind = "num"
  /\ d \div (MonthDays * DayTicks) = q.year.v * 12 + q.month.v - 1

\* sum of the quantities of the usage events of h dated in the month
RECURSIVE SumInMonth(_, _)
SumInMonth(h, q) ==
  IF h = <<>> THEN 0
  ELSE (IF InMonth(Head(h).date, q) THEN Head(h).quantity ELSE 0)
         + SumInMonth(Tail(h), q)

\* a report has been answered; line k is the line of batch res.materials[k]
Reported == res.op = "report" /\ res.status = 200

\* C17: each line of the monthly report has monthlyConsumed equal to the
\* sum of the quantities of exactly those usage events of its batch whose
\* date lies between the first instant of the month and 23:59:59.999 of its
\* last day; events of the following month are not counted.
C17_MonthlyConsumedInMonth ==
  Reported
    => \A k \in DOMAIN res.body :
         res.body[k].monthlyConsumed =
           SumInMonth(store[res.materials[k]].usageHistory, res.query)

\* the scenario of the claim: a batch delivered in the month, with a usage
\* event at the last instant of the month and one in the month after; the
\* report counts the first alone
C17_Witness ==
  /\ Reported
  /\ \E k \in DOMAIN res.body :
       LET mat == store[res.materials[k]]
       IN /\ InMonth(mat.date, res.query)
          /\ Len(mat.usageHistory) = 2
          /\ InMonth(mat.usageHistory[1].date, res.query)
          /\ ~InMonth(mat.usageHistory[2].date, res.query)
          /\ res.body[k].monthlyAdded = mat.quantity
          /\ res.body[k].monthlyConsumed = mat.usageHistory[1].quantity

\* ---------------------------------------------------------------------
\* C18: each line of the monthly report has monthlyAdded equal to the
\* delivered quantity of its batch when the delivery date lies in the month
\* and 0 otherwise, and an additions list of exactly one entry, whose
\* withinMonth flag says whether the delivery date lies in the month.
C18_MonthlyAddedInMonth ==
  Reported
    => \A k \in DOMAIN res.body :
         LET mat  == store[res.materials[k]]
             line == res.body[k]
         IN /\ line.monthlyAdded =
                 IF InMonth(mat.date, res.query) THEN mat.quantity ELSE 0
            /\ Len(line.additions) = 1
            /\ line.additions[1].quantity = mat.quantity
            /\ line.additions[1].withinMonth = InMonth(mat.date, res.query)

\* a report with a line of a batch delivered in the month and a line of one
\* delivered in another month
C18_Witness ==
  /\ Reported
  /\ \E k, l \in DOMAIN res.body :
       /\ res.body[k].monthlyAdded = store[res.materials[k]].quantity
       /\ res.body[k].additions[1].withinMonth
       /\ res.body[l].monthlyAdded = 0
       /\ ~res.body[l].additions[1].withinMonth

\* ---------------------------------------------------------------------
\* C20: the monthly report for projectId has exactly one line for each
\* stored batch whose projectAssigned is projectId and no line for a batch
\* of another project; each line has one consumptions entry for each usage
\* event of its batch.
C20_OneLinePerBatchOfProject ==
  Reported
    => /\ Len(res.body) = Len(res.materials)
       /\ \A k, l \in DOMAIN res.materials :
            res.materials[k] = res.materials[l] => k = l
       /\ {res.materials[k] : k \in DOMAIN res.materials} =
            {i \in DOMAIN store :
               store[i].projectAssigned = res.query.projectId}
       /\ \A k \in DOMAIN res.body :
            LET mat  == store[res.materials[k]]
                line == res.body[k]
            IN /\ line.matCode = mat.matCode
               /\ line.remaining = mat.availableQuantity
               /\ Len(line.consumptions) = Len(mat.usageHistory)
               /\ \A c \in DOMAIN line.consumptions :
                    line.consumptions[c].quantity = mat.usageHistory[c].quantity

\* a report of one line, with two consumptions, while the store holds a
\* batch of another project too
C20_Witness ==
  /\ Reported
  /\ Len(res.body) = 1
  /\ Len(res.body[1].consumptions) = 2
  /\ \E i \in DOMAIN store : store[i].projectAssigned # res.query.projectId

\* ---------------------------------------------------------------------
\* the step sets the status of every batch of code c to s, and their
\* availableQuantity to 0 when s is out of stock; it changes no batch of
\* another code, no usage log and no delivered quantity
StatusSet(c, s) ==
  /\ DOMAIN store' = DOMAIN store
  /\ \A i \in OfCode(store, c) :
       /\ store'[i].status = s
       /\ s = "out of stock" => store'[i].availableQuantity = 0
       /\ store'[i].usageHistory = store[i].usageHistory
       /\ store'[i].quantity = store[i].quantity
  /\ \A i \in DOMAIN store \ OfCode(store, c) : store'[i] = store[i]

\* C21: an accepted bulk status update for a material code sets the status
\* of every batch of that code, and availableQuantity to 0 on each of them
\* when the status is out of stock; it changes no batch of another code and
\* no usage log or delivered quantity.
C21_BulkStatusUpdate ==
  [][(res'.op = "status" /\ res'.status = 200)
       => \E c \in MatCodes, s \in RouteStatuses :
            OfCode(store, c) # {} /\ StatusSet(c, s)]_vars

\* a code with a partly consumed batch was put on hold while a batch of
\* another code is in the store
C21_Witness ==
  /\ res.op = "status" /\ res.status = 200
  /\ \E x, y \in DOMAIN store :
       /\ store[x].status = "on hold"
       /\ store[x].usageHistory # <<>>
       /\ store[x].availableQuantity > 0
       /\ store[y].matCode # store[x].matCode
       /\ store[y].status = "Available"

\* ---------------------------------------------------------------------
\* C22: in every reachable state the status of every batch is one of
\* Available, Out of Stock, On Hold, the values of the schema enum, also
\* after an accepted bulk status update.
C22_StatusInEnum ==
  \A i \in DOMAIN store : store[i].status \in StatusEnum

\* ---------------------------------------------------------------------
\* st with every status set to Available
AllAvailable(st) == [i \in DOMAIN st |-> [st[i] EXCEPT !.status = "Available"]]

\* the result of the take request (the answer and the store it leaves) when
\* it finds the documents of st in the order `order` and every save is
\* carried out by the database
TakeResult(st, order, matCode, qtyToTake, takenBy, date) ==
  LET materials == Loaded(st, order)
  IN IF Len(materials) = 0 THEN [store |-> st, status |-> 404]
     ELSE IF NumLt(Num(TotalAvailable(materials)), qtyToTake)
     THEN [store |-> st, status |-> 400]
     ELSE LET end == TakeLoop(st, materials, qtyToTake, takenBy, date, 0, 0)
          IN [store |-> end.store, status |-> end.status]

\* C23: a take does not depend on status: the request has the same answer,
\* and makes the same changes of availableQuantity and of the usage logs,
\* as on the store that differs from this one only in that every status is
\* Available.
C23_StatusBlind ==
  [][\A matCode \in MatCodes, v \in 1..MaxTake, takenBy \in Users,
        date \in TakeDays :
       Take(matCode, [kind |-> "num", v |-> v], takenBy, date, 0)
         => LET ref == AllAvailable(store)
            IN \E order \in SortedByDate(ref, FindAvailable(ref, matCode)) :
                 LET out == TakeResult(ref, order, matCode, Num(v), takenBy,
                                       date)
                 IN /\ res'.status = out.status
                    /\ \A i \in DOMAIN store :
                         /\ store'[i].availableQuantity =
                              out.store[i].availableQuantity
                         /\ store'[i].usageHistory =
                              out.store[i].usageHistory]_vars

\* ---------------------------------------------------------------------
\* the step removes the batches in S and leaves the others as they were
Removed(S) ==
  /\ DOMAIN store' = DOMAIN store \ S
  /\ \A i \in DOMAIN store' : store'[i] = store[i]

\* C24: delete by id removes the batch of that id and delete by code every
\* batch of that code, whatever their availableQuantity and usage logs, and
\* leave the other batches unchanged; for an id that is not stored or a code
\* without batches they answer 404 and change nothing.
C24_DeletesUnconditional ==
  [][/\ \A id \in 1..MaxBatches :
          Delete(id) => IF id \in DOMAIN store
                        THEN res'.status = 200 /\ Removed({id})
                        ELSE res'.status = 404 /\ store' = store
     /\ \A c \in MatCodes :
          DeleteCode(c) => IF OfCode(store, c) # {}
                           THEN res'.status = 200 /\ Removed(OfCode(store, c))
                           ELSE res'.status = 404 /\ store' = store]_vars

\* a batch was deleted by id and another one is left, with stock
C24_Witness ==
  /\ res.op = "delete" /\ res.status = 200
  /\ Cardinality(DOMAIN store) < nextId - 1
  /\ \E i \in DOMAIN store : store[i].availableQuantity > 0

\* ---------------------------------------------------------------------
\* C25: the delivered quantity and the matCode of a batch never change: every
\* step leaves them as they were for every batch that is still stored (the
\* id of a batch is its key in the store).
C25_DeliveredImmutable ==
  [][\A i \in DOMAIN store \cap DOMAIN store' :
       /\ store'[i].quantity = store[i].quantity
       /\ store'[i].matCode = store[i].matCode]_vars

\* a batch that was taken from and then set out of stock keeps its
\* delivered quantity
C25_Witness ==
  /\ res.op = "status" /\ res.status = 200
  /\ \E i \in DOMAIN store :
       /\ store[i].status = "out of stock"
       /\ store[i].usageHistory # <<>>
       /\ store[i].quantity = MaxQty

\* ---------------------------------------------------------------------
\* h is a prefix of g
IsPrefix(h, g) == Len(h) <= Len(g) /\ SubSeq(g, 1, Len(h)) = h

\* C26: usageHistory is append-only: in every step the usage log of each
\* batch before the step is a prefix of its usage log after it, and a take
\* answered 200 appends at most one event to a batch.
C26_UsageAppendOnly ==
  [][\A i \in DOMAIN store \cap DOMAIN store' :
       /\ IsPrefix(store[i].usageHistory, store'[i].usageHistory)
       /\ (res'.op = "take" /\ res'.status = 200)
            => Len(store'[i].usageHistory)
                 <= Len(store[i].usageHistory) + 1]_vars

\* a take saved two batches, one of which had a usage event of another
\* date already
C26_Witness ==
  /\ res.op = "take" /\ res.status = 200 /\ res.saved = 2
  /\ \E i \in OfCode(store, res.matCode) :
       /\ Len(store[i].usageHistory) = 2
       /\ store[i].usageHistory[1].date # store[i].usageHistory[2].date

\* ---------------------------------------------------------------------
\* C27: the loop stops when nothing is left to take: a take answered 200
\* changes at most one batch that it leaves with stock, and no batch dated
\* after that one; no take changes a batch whose availableQuantity is 0.
C27_StopsAtZero ==
  [][res'.op = "take"
       => /\ \A i \in DOMAIN store :
               store[i].availableQuantity = 0 => store'[i] = store[i]
          /\ res'.status = 200
               => /\ Cardinality({x \in Changed :
                                    store'[x].availableQuantity > 0}) <= 1
                  /\ \A x \in Changed, y \in DOMAIN store :
                       ( /\ store'[x].availableQuantity > 0
                         /\ store[y].matCode = store[x].matCode
                         /\ store[y].date > store[x].date )
                         => store'[y] = store[y]]_vars

\* a take drained the older batch exactly and left the newer one, which
\* has stock, untouched
C27_Witness ==
  /\ res.op = "take" /\ res.status = 200 /\ res.saved = 1
  /\ \E x, y \in OfCode(store, res.matCode) :
       /\ store[x].date < store[y].date
       /\ store[x].availableQuantity = 0
       /\ Len(store[x].usageHistory) = 1
       /\ store[y].usageHistory = <<>>
       /\ store[y].availableQuantity = store[y].quantity
       /\ store[y].status = "Available"

\* ---------------------------------------------------------------------
\* C28: after any sequence of requests served one at a time, every batch
\* whose status is the out-of-stock value has availableQuantity = 0.
C28_OutOfStockIsEmpty ==
  \A i \in DOMAIN store :
    store[i].status \in {"out of stock", "Out of Stock"}
      => store[i].availableQuantity = 0

\* a batch nobody took from was set out of stock, and a take on its code
\* found nothing
C28_Witness ==
  /\ res.op = "take" /\ res.status = 404
  /\ \E i \in OfCode(store, res.matCode) :
       /\ store[i].status = "out of stock"
       /\ store[i].usageHistory = <<>>
       /\ store[i].availableQuantity = 0

\* C29: with the requests handled one at a time, no employee ever has two
\* attendance records on one calendar day, and a request that carries a date
\* of a day on which its employee has a record already is answered 400 and
\* stores nothing, at whatever time of that day the date lies.
SameDayRecords(att, employeeId, day) ==
  {i \in DOMAIN att : att[i].employeeId = employeeId
                        /\ IsoDay(att[i].date) = day}
C29_OneRecordPerDay ==
  /\ [](\A e \in Employees, day \in 0 .. (AttendanceDays - 1) :
          Cardinality(SameDayRecords(attendance, e, day)) <= 1)
  /\ [][(/\ res'.op = "attendance"
         /\ res'.query.date.kind = "date"
         /\ SameDayRecords(attendance, res'.query.employeeId,
                           IsoDay(res'.query.date.v)) # {})
          => (res'.status = 400 /\ attendance' = attendance)]_vars
\* a request answered 400 whose date is another instant of the day than the
\* one stored for its employee, who has a record on another day as well
C29_Witness ==
  /\ res.op = "attendance" /\ res.status = 400
  /\ res.query.date.kind = "date"
  /\ \E i, j \in DOMAIN attendance :
       /\ attendance[i].employeeId = res.query.employeeId
       /\ attendance[j].employeeId = res.query.employeeId
       /\ IsoDay(attendance[i].date) = IsoDay(res.query.date.v)
       /\ attendance[i].date # res.query.date.v
       /\ IsoDay(attendance[j].date) # IsoDay(attendance[i].date)

\* an OTP that cannot be verified any more: verified once, or cleared
Spent(otp) == otp.verified \/ otp.code = Undefined
\* the step answers a verify-otp request for user u
VerifyStep(u) ==
  now' = now /\ res'.op = "verify" /\ res'.query.userId = u
\* C30 as stated: once verify-otp has succeeded for a user, every later
\* verify-otp for that user is answered 401 as long as no new OTP has been
\* generated.
C30_SpentIs401 ==
  [][\A u \in Accounts :
       (VerifyStep(u) /\ u \in DOMAIN users /\ users[u].otp.verified)
         => res'.status = 401]_vars
\* C30: a generated OTP is single-use.  verify-otp succeeds only for an OTP
\* that is not spent, whose code is the submitted one and whose expiry is not
\* past, and the success spends it; a spent OTP stays spent until a login or
\* a resend-otp answered 200 generates a new one for that user; and a
\* verify-otp for a user whose OTP is spent is answered 401, or 400 when the
\* submitted otp is malformed, or 404 when the user is inactive.
C30_SingleUse ==
  [][\A u \in Accounts :
       /\ (VerifyStep(u) /\ res'.status = 200)
            => /\ u \in DOMAIN users
               /\ ~Spent(users[u].otp)
               /\ users[u].otp.code = res'.query.otp
               /\ ~Expired(users[u].otp, now)
               /\ users'[u].otp.verified
       /\ (/\ u \in DOMAIN users /\ u \in DOMAIN users'
           /\ Spent(users[u].otp) /\ ~Spent(users'[u].otp))
            => /\ res'.op \in {"login", "resend"}
               /\ res'.status = 200
               /\ res'.query.userId = u
       /\ (VerifyStep(u) /\ u \in DOMAIN users /\ Spent(users[u].otp))
            => res'.status = IF ~OtpWellFormed(res'.query.otp) THEN 400
                             ELSE IF ~users[u].isActive THEN 404
                             ELSE 401]_vars
\* the code of the stored OTP, not expired, is refused because the OTP has
\* been verified before
C30_Witness ==
  /\ res.op = "verify" /\ res.status = 401
  /\ res.query.userId \in DOMAIN users
  /\ LET user == users[res.query.userId]
     IN /\ user.isActive
        /\ user.otp.verified
        /\ user.otp.code = res.query.otp
        /\ ~Expired(user.otp, now)

====
